---- MODULE Spec2Model ----
(***************************************************************************)
(* A model of src/mhd/simulation.py: the variable index map (Variables),   *)
(* the state converter (cons_to_prim, prim_to_cons), the timestep rule     *)
(* (Simulation.method_compute_timestep) and the stage driver               *)
(* (Simulation.evolve).                                                    *)
(*                                                                         *)
(* Real numbers are exact rationals <<n, d>> in lowest terms with d > 0.   *)
(* Densities, pressures, momenta and energies are measured in units of    *)
(* the floor 1.e-10 (magnetic fields in units of its square root), so the  *)
(* floor is the number 1; every equation of the converter is homogeneous   *)
(* under this change of units.                                             *)
(***************************************************************************)
EXTENDS Integers, Sequences, FiniteSets, TLC

VARIABLES
    \* ---- state converter ----
    names,      \* ccd.names, the registered field names in order
    ivars,      \* Variables(ccd)
    gamma,      \* eos.gamma
    U,          \* the caller's conserved array (Zones -> slot -> rational), or Null
    q,          \* the primitive array, or Null
    UIn,        \* the conserved array as it was when cons_to_prim was last called
    qIn,        \* the primitive array prim_to_cons was last called with
    calls,      \* the conversions called so far, in order
    \* ---- timestep controller and stage driver ----
    rp,         \* runtime parameters: driver.cfl, driver.fix_dt, stages, particles
    grid,       \* cc_data.grid: dx, dy
    cc,         \* self.cc_data: per-cell velocities and wave speeds, ghost flag
    fcx,        \* self.fcx_data
    fcy,        \* self.fcy_data
    t,          \* self.cc_data.t
    n,          \* self.n
    dt,         \* self.dt
    particles,  \* self.particles: Null, or the dt values it was advanced with
    pc,         \* position in evolve (or in the timestep call)
    s,          \* the stage loop variable
    rk,         \* the RKIntegratorMHD of the current evolve call
    ytmp,       \* stage working states
    fxtmp,
    fytmp,
    k,          \* the increment returned by the last substep
    trace,      \* the statements the current evolve call has executed
    entry,      \* the live state on entry to the current evolve call
    usedSum,    \* sum of the dt values the completed steps were integrated with
    failed      \* a substep evaluation has raised

convVars == <<names, ivars, gamma, U, q, UIn, qIn, calls>>
simVars == <<rp, grid, cc, fcx, fcy, t, n, dt, particles>>
evolveVars == <<pc, s, rk, ytmp, fxtmp, fytmp, k, trace, entry, usedSum, failed>>
vars == <<convVars, simVars, evolveVars>>

(***************************************************************************)
(* Bounds                                                                  *)
(***************************************************************************)
\* number of zones of the arrays handed to the converter
NZones == 1
\* largest number of passively advected scalars registered
MaxAux == 1
\* number of cells of the simulation grid
NCells == 2
\* largest number of Runge-Kutta stages of a temporal method
MaxStages == 2
\* number of evolve calls the outer loop makes
MaxSteps == 2

(***************************************************************************)
(* Exact rational arithmetic                                               *)
(***************************************************************************)
RECURSIVE GCD(_, _)
GCD(a, b) ==
    IF b = 0 THEN a ELSE GCD(b, a % b)

Abs(x) ==
    IF x < 0 THEN -x ELSE x

Rat(num, den) ==
    LET sn == IF den < 0 THEN -num ELSE num
        sd == Abs(den)
        g == GCD(Abs(sn), sd)
    IN <<sn \div g, sd \div g>>

Whole(i) ==
    <<i, 1>>

RAdd(a, b) ==
    Rat(a[1] * b[2] + b[1] * a[2], a[2] * b[2])

RSub(a, b) ==
    Rat(a[1] * b[2] - b[1] * a[2], a[2] * b[2])

RMul(a, b) ==
    Rat(a[1] * b[1], a[2] * b[2])

RDiv(a, b) ==
    Rat(a[1] * b[2], a[2] * b[1])

RLe(a, b) ==
    a[1] * b[2] <= b[1] * a[2]

RLt(a, b) ==
    a[1] * b[2] < b[1] * a[2]

RMax(a, b) ==
    IF RLe(a, b) THEN b ELSE a

RMin(a, b) ==
    IF RLe(a, b) THEN a ELSE b

RAbs(a) ==
    <<Abs(a[1]), a[2]>>

RSq(a) ==
    RMul(a, a)

Half ==
    Rat(1, 2)

\* the minimum of a non-empty finite set of rationals (ndarray.min())
RMinOf(S) ==
    CHOOSE m \in S : \A x \in S : RLe(m, x)

(***************************************************************************)
(* Variable registry                                                       *)
(***************************************************************************)
Mandatory ==
    <<"density", "x-momentum", "y-momentum", "energy",
      "x-magnetic-field", "y-magnetic-field">>

ExtraNames ==
    <<"fuel", "ash", "tracer", "dye">>

\* the registration order of Simulation.initialize with k extra variables
RegisteredNames(kx) ==
    Mandatory \o SubSeq(ExtraNames, 1, kx)

\* list.index(name), 0-based
Index(nm, name) ==
    (CHOOSE i \in 1..Len(nm) : nm[i] = name /\ \A j \in 1..(i - 1) : nm[j] # name) - 1

\* Variables with the auxiliary indices set to 6 whether or not scalars exist
Variables_NoSentinel(nm) ==
    LET nvar == Len(nm)
        naux == nvar - 6
    IN [nvar |-> nvar,
        idens |-> Index(nm, "density"),
        ixmom |-> Index(nm, "x-momentum"),
        iymom |-> Index(nm, "y-momentum"),
        iener |-> Index(nm, "energy"),
        ixmag |-> Index(nm, "x-magnetic-field"),
        iymag |-> Index(nm, "y-magnetic-field"),
        naux |-> naux,
        irhox |-> 6,
        nq |-> 6 + naux,
        irho |-> 0,
        iu |-> 1,
        iv |-> 2,
        ip |-> 3,
        ibx |-> 4,
        iby |-> 5,
        ix |-> 6]

Variables(nm) ==
    LET nvar == Len(nm)
        naux == nvar - 6
    IN [nvar |-> nvar,
        idens |-> Index(nm, "density"),
        ixmom |-> Index(nm, "x-momentum"),
        iymom |-> Index(nm, "y-momentum"),
        iener |-> Index(nm, "energy"),
        ixmag |-> Index(nm, "x-magnetic-field"),
        iymag |-> Index(nm, "y-magnetic-field"),
        naux |-> naux,
        irhox |-> IF naux > 0 THEN 6 ELSE -1,
        nq |-> 6 + naux,
        irho |-> 0,
        iu |-> 1,
        iv |-> 2,
        ip |-> 3,
        ibx |-> 4,
        iby |-> 5,
        ix |-> IF naux > 0 THEN 6 ELSE -1]

(***************************************************************************)
(* Arrays: a zone of an array is a function from slots 0..nvar-1; the raw  *)
(* index of an access follows Python's rule for negative indices.          *)
(***************************************************************************)
Zones ==
    1..NZones

Slot(a, i) ==
    IF i < 0 THEN Cardinality(DOMAIN a) + i ELSE i

Get(a, i) ==
    a[Slot(a, i)]

Put(a, i, x) ==
    [a EXCEPT ![Slot(a, i)] = x]

\* one zone of myg.scratch_array(nvar=nv): zeros
scratch_array(nv) ==
    [sl \in 0..(nv - 1) |-> Whole(0)]

smallrho ==
    Whole(1)

smallp ==
    Whole(1)

\* mhd.eos
eos_pres(gam, dens, eint) ==
    RMul(RMul(dens, eint), RSub(gam, Whole(1)))

eos_rhoe(gam, pres) ==
    RDiv(pres, RSub(gam, Whole(1)))

\* the (primitive, conserved) raw index pairs of the auxiliary loop
AuxPairs(iv) ==
    IF iv.naux > 0
    THEN {<<iv.ix + j, iv.irhox + j>> : j \in 0..(iv.naux - 1)}
    ELSE {}

\* the raw indices a conversion uses on the conserved and the primitive array
ConsIndices(iv) ==
    {iv.idens, iv.ixmom, iv.iymom, iv.iener, iv.ixmag, iv.iymag}
        \cup {p[2] : p \in AuxPairs(iv)}

PrimIndices(iv) ==
    {iv.irho, iv.iu, iv.iv, iv.ip, iv.ibx, iv.iby}
        \cup {p[1] : p \in AuxPairs(iv)}

(***************************************************************************)
(* cons_to_prim, one zone: returns the primitive zone and the caller's     *)
(* conserved zone as the call leaves it.                                   *)
(***************************************************************************)
cons_to_prim_zone(Uz, gam, iv) ==
    LET q0 == scratch_array(iv.nq)
        U1 == Put(Uz, iv.idens, RMax(Get(Uz, iv.idens), smallrho))
        q1 == Put(q0, iv.irho, RMax(Get(U1, iv.idens), smallrho))
        q2 == Put(q1, iv.iu, RDiv(Get(U1, iv.ixmom), Get(q1, iv.irho)))
        q3 == Put(q2, iv.iv, RDiv(Get(U1, iv.iymom), Get(q2, iv.irho)))
        q4 == Put(q3, iv.ibx, Get(U1, iv.ixmag))
        q5 == Put(q4, iv.iby, Get(U1, iv.iymag))
        e == RDiv(RSub(RSub(Get(U1, iv.iener),
                            RMul(RMul(Half, Get(q5, iv.irho)),
                                 RAdd(RSq(Get(q5, iv.iu)), RSq(Get(q5, iv.iv))))),
                       RMul(Half, RAdd(RSq(Get(q5, iv.ibx)), RSq(Get(q5, iv.iby))))),
                  Get(q5, iv.irho))
        q6 == Put(q5, iv.ip, RMax(smallp, eos_pres(gam, Get(q5, iv.irho), e)))
        pairs == AuxPairs(iv)
        q7 == [sl \in DOMAIN q6 |->
                 IF \E p \in pairs : Slot(q6, p[1]) = sl
                 THEN LET p == CHOOSE pp \in pairs : Slot(q6, pp[1]) = sl
                      IN RDiv(Get(U1, p[2]), Get(q6, iv.irho))
                 ELSE q6[sl]]
    IN [q |-> q7, U |-> U1]

\* cons_to_prim that floors on write and leaves the caller's array alone
cons_to_prim_Pure(Ua, gam, iv) ==
    [q |-> [z \in DOMAIN Ua |-> cons_to_prim_zone(Ua[z], gam, iv).q],
     U |-> Ua]

cons_to_prim(Ua, gam, iv) ==
    [q |-> [z \in DOMAIN Ua |-> cons_to_prim_zone(Ua[z], gam, iv).q],
     U |-> [z \in DOMAIN Ua |-> cons_to_prim_zone(Ua[z], gam, iv).U]]

(***************************************************************************)
(* prim_to_cons, one zone                                                  *)
(***************************************************************************)
prim_to_cons_zone(qz, gam, iv) ==
    LET U0 == scratch_array(iv.nvar)
        U1 == Put(U0, iv.idens, RMax(Get(qz, iv.irho), smallrho))
        U2 == Put(U1, iv.ixmom, RMul(Get(qz, iv.iu), Get(U1, iv.idens)))
        U3 == Put(U2, iv.iymom, RMul(Get(qz, iv.iv), Get(U2, iv.idens)))
        U4 == Put(U3, iv.ixmag, Get(qz, iv.ibx))
        U5 == Put(U4, iv.iymag, Get(qz, iv.iby))
        rhoe == eos_rhoe(gam, RMax(smallp, Get(qz, iv.ip)))
        U6 == Put(U5, iv.iener,
                  RAdd(RAdd(rhoe,
                            RMul(RMul(Half, Get(qz, iv.irho)),
                                 RAdd(RSq(Get(qz, iv.iu)), RSq(Get(qz, iv.iv))))),
                       RMul(Half, RAdd(RSq(Get(qz, iv.ibx)), RSq(Get(qz, iv.iby))))))
        pairs == AuxPairs(iv)
        U7 == [sl \in DOMAIN U6 |->
                 IF \E p \in pairs : Slot(U6, p[2]) = sl
                 THEN LET p == CHOOSE pp \in pairs : Slot(U6, pp[2]) = sl
                      IN RMul(Get(qz, p[1]), Get(qz, iv.irho))
                 ELSE U6[sl]]
    IN U7

\* prim_to_cons with the magnetic energy left out of the total energy
prim_to_cons_NoMagEnergy(qa, gam, iv) ==
    [z \in DOMAIN qa |->
        LET Uz == prim_to_cons_zone(qa[z], gam, iv)
        IN Put(Uz, iv.iener,
               RSub(Get(Uz, iv.iener),
                    RMul(Half, RAdd(RSq(Get(qa[z], iv.ibx)), RSq(Get(qa[z], iv.iby))))))]

\* prim_to_cons that writes the density without the floor
prim_to_cons_NoFloor(qa, gam, iv) ==
    [z \in DOMAIN qa |->
        Put(prim_to_cons_zone(qa[z], gam, iv), iv.idens, Get(qa[z], iv.irho))]

prim_to_cons(qa, gam, iv) ==
    [z \in DOMAIN qa |-> prim_to_cons_zone(qa[z], gam, iv)]

(***************************************************************************)
(* Inputs of the converter                                                 *)
(***************************************************************************)
NoArray ==
    <<>>

\* below, at and above the floor
RhoVals ==
    {Rat(1, 2), Whole(1), Whole(2)}

UVelVals ==
    {Whole(-1), Whole(2)}

VVelVals ==
    {Whole(1)}

PresVals ==
    {Rat(1, 2), Whole(1), Whole(3)}

BxVals ==
    {Whole(1)}

ByVals ==
    {Whole(0), Whole(2)}

ScalarVals ==
    {Rat(1, 2), Whole(1)}

MomVals ==
    {Whole(-1), Whole(2)}

EnerVals ==
    {Whole(0), Whole(9)}

Gammas ==
    {Rat(7, 5), Rat(5, 3)}

Layout(nv, a, b, c, d, e, f, X) ==
    [sl \in 0..(nv - 1) |->
        CASE sl = 0 -> a
          [] sl = 1 -> b
          [] sl = 2 -> c
          [] sl = 3 -> d
          [] sl = 4 -> e
          [] sl = 5 -> f
          [] OTHER -> X[sl]]

\* primitive zones: density, velocities, pressure, field, mass fractions
PrimZones(nv) ==
    {Layout(nv, a, b, c, d, e, f, X) :
        a \in RhoVals, b \in UVelVals, c \in VVelVals, d \in PresVals,
        e \in BxVals, f \in ByVals, X \in [6..(nv - 1) -> ScalarVals]}

\* conserved zones: density, momenta, energy, field, scalar densities
ConsZones(nv) ==
    {Layout(nv, a, b, c, d, e, f, X) :
        a \in RhoVals, b \in MomVals, c \in {Whole(1)}, d \in EnerVals,
        e \in BxVals, f \in {Whole(2)}, X \in [6..(nv - 1) -> ScalarVals]}

Called(fn) ==
    \E i \in 1..Len(calls) : calls[i].fn = fn

LastCall ==
    IF calls = <<>> THEN "none" ELSE calls[Len(calls)].fn

CallRecord(fn, iv) ==
    [fn |-> fn, cons |-> ConsIndices(iv), prim |-> PrimIndices(iv)]

\* the simulation is not running while the converter is exercised
SimIdle ==
    /\ rp = [cfl |-> Whole(1), fix_dt |-> Whole(1), nstages |-> 1, do_particles |-> FALSE]
    /\ grid = [dx |-> Whole(1), dy |-> Whole(1)]
    /\ cc = [val |-> <<>>, ghost |-> TRUE]
    /\ fcx = [val |-> 0, ghost |-> TRUE]
    /\ fcy = [val |-> 0, ghost |-> TRUE]
    /\ t = Whole(0)
    /\ n = 0
    /\ dt = Whole(0)
    /\ particles = [attached |-> FALSE, moved |-> <<>>]
    /\ pc = "off"
    /\ s = 0
    /\ rk = [t |-> Whole(0), dt |-> Whole(0), nst |-> 0, stored |-> <<>>]
    /\ ytmp = [from |-> {}, ghost |-> FALSE]
    /\ fxtmp = [from |-> {}, ghost |-> FALSE]
    /\ fytmp = [from |-> {}, ghost |-> FALSE]
    /\ k = [stage |-> -1, dt |-> Whole(0), ghost |-> FALSE]
    /\ trace = <<>>
    /\ entry = [cc |-> cc, fcx |-> fcx, fcy |-> fcy, t |-> t, n |-> n, dt |-> dt,
                particles |-> particles]
    /\ usedSum = Whole(0)
    /\ failed = FALSE

ConvInit ==
    /\ \E kx \in 0..MaxAux : names = RegisteredNames(kx)
    /\ ivars = Variables(names)
    /\ gamma \in Gammas
    /\ \/ q \in [Zones -> PrimZones(ivars.nq)] /\ U = NoArray
       \/ U \in [Zones -> ConsZones(ivars.nvar)] /\ q = NoArray
    /\ UIn = NoArray
    /\ qIn = NoArray
    /\ calls = <<>>
    /\ SimIdle

CallPrimToCons ==
    /\ q # NoArray
    /\ ~Called("prim_to_cons")
    /\ U' = prim_to_cons(q, gamma, ivars)
    /\ qIn' = q
    /\ calls' = Append(calls, CallRecord("prim_to_cons", ivars))
    /\ UNCHANGED <<names, ivars, gamma, q, UIn, simVars, evolveVars>>

CallConsToPrim ==
    /\ U # NoArray
    /\ ~Called("cons_to_prim")
    /\ LET r == cons_to_prim(U, gamma, ivars)
       IN /\ q' = r.q
          /\ U' = r.U
    /\ UIn' = U
    /\ calls' = Append(calls, CallRecord("cons_to_prim", ivars))
    /\ UNCHANGED <<names, ivars, gamma, qIn, simVars, evolveVars>>

ConvNext ==
    \/ CallPrimToCons
    \/ CallConsToPrim

SpecConv ==
    ConvInit /\ [][ConvNext]_vars

(***************************************************************************)
(* Properties of the converter and of the index map                        *)
(***************************************************************************)
\* the kinetic plus magnetic energy density of a primitive zone at density rho
KinMagEnergy(qz, rho, iv) ==
    RAdd(RMul(RMul(Half, rho), RAdd(RSq(Get(qz, iv.iu)), RSq(Get(qz, iv.iv)))),
         RMul(Half, RAdd(RSq(Get(qz, iv.ibx)), RSq(Get(qz, iv.iby)))))

\* the equation-of-state pressure of a conserved zone whose primitive zone is qz
RawPressure(Uz, qz, iv) ==
    eos_pres(gamma, Get(qz, iv.irho),
             RDiv(RSub(Get(Uz, iv.iener), KinMagEnergy(qz, Get(qz, iv.irho), iv)),
                  Get(qz, iv.irho)))

AboveFloor(qa) ==
    \A z \in DOMAIN qa :
        /\ RLt(smallrho, Get(qa[z], ivars.irho))
        /\ RLt(smallp, Get(qa[z], ivars.ip))

RoundTripDone ==
    /\ Len(calls) = 2
    /\ calls[1].fn = "prim_to_cons"
    /\ calls[2].fn = "cons_to_prim"

\* C5: for every primitive array whose density and pressure are above the
\* floor in every zone, cons_to_prim(prim_to_cons(q)) is q in every field.
C5_RoundTrip ==
    (RoundTripDone /\ AboveFloor(qIn)) => q = qIn

C5_Witness ==
    /\ RoundTripDone
    /\ AboveFloor(qIn)
    /\ ivars.naux > 0
    /\ q = qIn

\* C6: the density written by either conversion and the pressure written by
\* cons_to_prim are never below the floor, are exactly the floor where the
\* input density (the equation-of-state pressure) is at or below it, and
\* prim_to_cons takes the internal energy density from the floored pressure.
C6_Flooring ==
    /\ LastCall = "cons_to_prim" =>
         \A z \in DOMAIN q :
            /\ RLe(smallrho, Get(q[z], ivars.irho))
            /\ RLe(smallp, Get(q[z], ivars.ip))
            /\ RLe(Get(UIn[z], ivars.idens), smallrho)
                  => Get(q[z], ivars.irho) = smallrho
            /\ RLe(RawPressure(UIn[z], q[z], ivars), smallp)
                  => Get(q[z], ivars.ip) = smallp
    /\ LastCall = "prim_to_cons" =>
         \A z \in DOMAIN U :
            /\ RLe(smallrho, Get(U[z], ivars.idens))
            /\ RLe(Get(qIn[z], ivars.irho), smallrho)
                  => Get(U[z], ivars.idens) = smallrho
            /\ RSub(Get(U[z], ivars.iener),
                    KinMagEnergy(qIn[z], Get(qIn[z], ivars.irho), ivars))
                  = eos_rhoe(gamma, RMax(smallp, Get(qIn[z], ivars.ip)))

C6_Witness ==
    /\ LastCall = "cons_to_prim"
    /\ \E z \in DOMAIN q :
          /\ RLt(Get(UIn[z], ivars.idens), smallrho)
          /\ RLt(RawPressure(UIn[z], q[z], ivars), smallp)
          /\ Get(q[z], ivars.irho) = smallrho
          /\ Get(q[z], ivars.ip) = smallp

\* C7: after prim_to_cons every conserved auxiliary scalar is the primitive
\* scalar times the clamped density, the density prim_to_cons wrote.
C7_AuxUsesClampedDensity ==
    LastCall = "prim_to_cons" =>
        \A z \in DOMAIN U : \A p \in AuxPairs(ivars) :
            Get(U[z], p[2]) = RMul(Get(qIn[z], p[1]), Get(U[z], ivars.idens))

\* C8: cons_to_prim changes the caller's conserved array only by flooring
\* its density.
C8_OnlyDensityFloored ==
    LastCall = "cons_to_prim" =>
        /\ DOMAIN U = DOMAIN UIn
        /\ \A z \in DOMAIN U :
              /\ DOMAIN U[z] = DOMAIN UIn[z]
              /\ \A sl \in DOMAIN U[z] :
                    U[z][sl] = IF sl = ivars.idens
                               THEN RMax(UIn[z][sl], smallrho)
                               ELSE UIn[z][sl]

C8_Witness ==
    /\ LastCall = "cons_to_prim"
    /\ \E z \in DOMAIN U :
          /\ RLt(Get(UIn[z], ivars.idens), smallrho)
          /\ Get(U[z], ivars.idens) = smallrho
    /\ ivars.naux > 0

\* C10: for the six mandatory names followed by kx extra names, naux = kx
\* and nq = nvar; without extras both auxiliary indices are -1 and no
\* conversion uses the index -1; with extras both are 6 and the auxiliary
\* slots are 6..nvar-1, apart from the six mandatory slots.
C10_IndexMap ==
    LET kx == Len(names) - 6
        mand == {ivars.idens, ivars.ixmom, ivars.iymom, ivars.iener,
                 ivars.ixmag, ivars.iymag}
    IN /\ ivars.naux = kx
       /\ ivars.nq = ivars.nvar
       /\ ivars.nvar = Len(names)
       /\ kx = 0 =>
            /\ ivars.irhox = -1
            /\ ivars.ix = -1
            /\ \A i \in 1..Len(calls) : -1 \notin (calls[i].cons \cup calls[i].prim)
       /\ kx >= 1 =>
            /\ ivars.irhox = 6
            /\ ivars.ix = 6
            /\ mand = 0..5
            /\ \A i \in 1..Len(calls) :
                  /\ calls[i].cons \ mand = 6..(ivars.nvar - 1)
                  /\ calls[i].prim \ (0..5) = 6..(ivars.nq - 1)

C10_Witness ==
    /\ Len(names) = 6
    /\ Len(calls) = 2
    /\ ivars.irhox = -1

(***************************************************************************)
(* Timestep controller                                                     *)
(***************************************************************************)
Cells ==
    1..NCells

\* min(a, b, c) of Python scalars
Min3(a, b, c) ==
    RMin(RMin(a, b), c)

\* the same rule without the fixed bound
method_compute_timestep_NoFixDt(params, g, ccv) ==
    LET xtmp == {RDiv(g.dx, RAdd(RAbs(ccv[c].u), ccv[c].Cfx)) : c \in DOMAIN ccv}
        ytmp0 == {RDiv(g.dy, RAdd(RAbs(ccv[c].v), ccv[c].Cfy)) : c \in DOMAIN ccv}
    IN RMul(params.cfl, RMin(RMinOf(xtmp), RMinOf(ytmp0)))

\* the value method_compute_timestep assigns to self.dt
method_compute_timestep(params, g, ccv) ==
    LET cfl == params.cfl
        fix_dt == params.fix_dt
        xtmp == {RDiv(g.dx, RAdd(RAbs(ccv[c].u), ccv[c].Cfx)) : c \in DOMAIN ccv}
        ytmp0 == {RDiv(g.dy, RAdd(RAbs(ccv[c].v), ccv[c].Cfy)) : c \in DOMAIN ccv}
    IN RMul(cfl, Min3(RMinOf(xtmp), RMinOf(ytmp0), fix_dt))

\* driver.cfl, in (0, 1]
CflVals ==
    {Rat(1, 2), Whole(1)}

\* driver.fix_dt, any float
FixDtVals ==
    {Whole(-1), Whole(0), Rat(1, 4), Whole(2)}

GridVals ==
    {[dx |-> Whole(1), dy |-> Whole(1)], [dx |-> Whole(1), dy |-> Whole(2)]}

\* velocities and strictly positive fast magnetosonic speeds of a cell
CellVals ==
    [u : {Whole(-2), Whole(1)}, v : {Whole(-1), Whole(0)},
     Cfx : {Whole(1), Whole(2)}, Cfy : {Whole(1), Whole(3)}]

ConvIdle ==
    /\ names = Mandatory
    /\ ivars = Variables(names)
    /\ gamma = Rat(7, 5)
    /\ U = NoArray
    /\ q = NoArray
    /\ UIn = NoArray
    /\ qIn = NoArray
    /\ calls = <<>>

EvolveIdle ==
    /\ s = 0
    /\ rk = [t |-> Whole(0), dt |-> Whole(0), nst |-> 0, stored |-> <<>>]
    /\ ytmp = [from |-> {}, ghost |-> FALSE]
    /\ fxtmp = [from |-> {}, ghost |-> FALSE]
    /\ fytmp = [from |-> {}, ghost |-> FALSE]
    /\ k = [stage |-> -1, dt |-> Whole(0), ghost |-> FALSE]
    /\ trace = <<>>
    /\ entry = [cc |-> cc, fcx |-> fcx, fcy |-> fcy, t |-> t, n |-> n, dt |-> dt,
                particles |-> particles]
    /\ usedSum = Whole(0)
    /\ failed = FALSE

DtInit ==
    /\ ConvIdle
    /\ rp \in [cfl : CflVals, fix_dt : FixDtVals, nstages : {1}, do_particles : {FALSE}]
    /\ grid \in GridVals
    /\ cc \in [val : [Cells -> CellVals], ghost : {TRUE}]
    /\ fcx = [val |-> 0, ghost |-> TRUE]
    /\ fcy = [val |-> 0, ghost |-> TRUE]
    /\ t = Whole(0)
    /\ n = 0
    /\ dt = Whole(0)
    /\ particles = [attached |-> FALSE, moved |-> <<>>]
    /\ pc = "timestep"
    /\ EvolveIdle

CallComputeTimestep ==
    /\ pc = "timestep"
    /\ dt' = method_compute_timestep(rp, grid, cc.val)
    /\ pc' = "timestep_done"
    /\ UNCHANGED <<convVars, rp, grid, cc, fcx, fcy, t, n, particles>>
    /\ UNCHANGED <<s, rk, ytmp, fxtmp, fytmp, k, trace, entry, usedSum, failed>>

DtNext ==
    CallComputeTimestep

SpecDt ==
    DtInit /\ [][DtNext]_vars

\* C4 as stated: the timestep never exceeds driver.fix_dt, whatever its value.
C4_DtNeverExceedsFixDt ==
    pc = "timestep_done" => RLe(dt, rp.fix_dt)

\* C4 amended: for every CFL number in (0, 1], every driver.fix_dt >= 0 and
\* every state, the timestep set by method_compute_timestep is at most fix_dt.
C4_DtAtMostNonNegativeFixDt ==
    (pc = "timestep_done" /\ RLe(Whole(0), rp.fix_dt)) => RLe(dt, rp.fix_dt)

C4_Witness ==
    /\ pc = "timestep_done"
    /\ RLt(Whole(0), rp.fix_dt)
    /\ dt = rp.fix_dt
    /\ RLt(rp.fix_dt, method_compute_timestep_NoFixDt(rp, grid, cc.val))

(***************************************************************************)
(* Stage driver: Simulation.evolve, one action per statement.  The         *)
(* integrator (mhd.mhd_integration), the boundary fill (fill_BC_all) and    *)
(* the flux evaluation (flx.timestep) are collaborators: the integrator    *)
(* keeps the increments it was given and hands out fresh copies, the fill  *)
(* marks the ghost cells of its object filled, the flux evaluation returns *)
(* an increment or raises.                                                 *)
(***************************************************************************)
\* the states compute_final_update can leave in cc_data
UpdateCellVals ==
    [u : {Whole(-2), Whole(0), Whole(1)}, v : {Whole(0)}, Cfx : {Whole(1)}, Cfy : {Whole(1)}]

EvolveCflVals ==
    {Rat(1, 2), Whole(1)}

EvolveFixDtVals ==
    {Rat(1, 4), Whole(2)}

EvolveGrid ==
    [dx |-> Whole(1), dy |-> Whole(1)]

\* rk.nstages(), selected by mhd.temporal_method
nstages(r) ==
    r.nst

\* rk.get_stage_start(s): a fresh copy built from the start state and the
\* increments stored so far; its ghost cells are not filled
get_stage_start(r, st) ==
    [from |-> DOMAIN r.stored, ghost |-> FALSE]

\* rk.store_increment(s, k, kx, ky)
store_increment(r, st, inc) ==
    [r EXCEPT !.stored =
        [i \in (DOMAIN r.stored) \cup {st} |-> IF i = st THEN inc ELSE r.stored[i]]]

\* obj.fill_BC_all()
fill_BC_all(obj) ==
    [obj EXCEPT !.ghost = TRUE]

Event(op, st) ==
    [op |-> op, s |-> st, stored |-> DOMAIN rk.stored]

\* the target of the for statement when the loop variable would become st
LoopTarget(st, nst) ==
    IF st < nst THEN "get_stage_start" ELSE "compute_final_update"

Snapshot ==
    [cc |-> cc, fcx |-> fcx, fcy |-> fcy, t |-> t, n |-> n, dt |-> dt,
     particles |-> particles]

EvolveInit ==
    /\ ConvIdle
    /\ rp \in [cfl : EvolveCflVals, fix_dt : EvolveFixDtVals,
               nstages : 1..MaxStages, do_particles : BOOLEAN]
    /\ grid = EvolveGrid
    /\ cc \in [val : [Cells -> UpdateCellVals], ghost : {TRUE}]
    /\ fcx = [val |-> 0, ghost |-> TRUE]
    /\ fcy = [val |-> 0, ghost |-> TRUE]
    /\ t = Whole(0)
    /\ n = 0
    /\ dt = method_compute_timestep(rp, grid, cc.val)
    /\ particles = [attached |-> rp.do_particles, moved |-> <<>>]
    /\ pc = "idle"
    /\ EvolveIdle

\* lines 242-243: rk = RKIntegratorMHD(myd.t, self.dt, method); rk.set_start(...)
Start ==
    /\ pc = "idle"
    /\ n < MaxSteps
    /\ rk' = [t |-> t, dt |-> dt, nst |-> rp.nstages, stored |-> <<>>]
    /\ entry' = Snapshot
    /\ s' = 0
    /\ trace' = <<[op |-> "start", s |-> -1, stored |-> {}]>>
    /\ pc' = LoopTarget(0, rp.nstages)
    /\ UNCHANGED <<convVars, simVars, ytmp, fxtmp, fytmp, k, usedSum, failed>>

\* line 246
GetStageStart ==
    /\ pc = "get_stage_start"
    /\ ytmp' = get_stage_start(rk, s)
    /\ fxtmp' = get_stage_start(rk, s)
    /\ fytmp' = get_stage_start(rk, s)
    /\ trace' = Append(trace, Event("get_stage_start", s))
    /\ pc' = "fill_ytmp"
    /\ UNCHANGED <<convVars, simVars, s, rk, k, entry, usedSum, failed>>

\* line 247
FillStageCC ==
    /\ pc = "fill_ytmp"
    /\ ytmp' = fill_BC_all(ytmp)
    /\ trace' = Append(trace, Event("fill_ytmp", s))
    /\ pc' = "fill_fxtmp"
    /\ UNCHANGED <<convVars, simVars, s, rk, fxtmp, fytmp, k, entry, usedSum, failed>>

\* line 248 left out
FillStageFx_Skipped ==
    /\ pc = "fill_fxtmp"
    /\ trace' = Append(trace, Event("fill_fxtmp", s))
    /\ pc' = "fill_fytmp"
    /\ UNCHANGED <<convVars, simVars, s, rk, ytmp, fxtmp, fytmp, k, entry, usedSum, failed>>

\* line 248
FillStageFx ==
    /\ pc = "fill_fxtmp"
    /\ fxtmp' = fill_BC_all(fxtmp)
    /\ trace' = Append(trace, Event("fill_fxtmp", s))
    /\ pc' = "fill_fytmp"
    /\ UNCHANGED <<convVars, simVars, s, rk, ytmp, fytmp, k, entry, usedSum, failed>>

\* line 249
FillStageFy ==
    /\ pc = "fill_fytmp"
    /\ fytmp' = fill_BC_all(fytmp)
    /\ trace' = Append(trace, Event("fill_fytmp", s))
    /\ pc' = "substep"
    /\ UNCHANGED <<convVars, simVars, s, rk, ytmp, fxtmp, k, entry, usedSum, failed>>

\* line 250 (substep, lines 224-228): flx.timestep returns the increment
SubstepReturns ==
    /\ pc = "substep"
    /\ k' = [stage |-> s, dt |-> dt,
             ghost |-> ytmp.ghost /\ fxtmp.ghost /\ fytmp.ghost]
    /\ trace' = Append(trace, Event("substep", s))
    /\ pc' = "store_increment"
    /\ UNCHANGED <<convVars, simVars, s, rk, ytmp, fxtmp, fytmp, entry, usedSum, failed>>

\* the failure caught and the loop carried on
SubstepRaises_Swallowed ==
    /\ pc = "substep"
    /\ failed' = TRUE
    /\ k' = [stage |-> s, dt |-> dt,
             ghost |-> ytmp.ghost /\ fxtmp.ghost /\ fytmp.ghost]
    /\ trace' = Append(trace, Event("substep", s))
    /\ pc' = "store_increment"
    /\ UNCHANGED <<convVars, simVars, s, rk, ytmp, fxtmp, fytmp, entry, usedSum>>

\* line 250: flx.timestep raises; nothing in evolve catches it
SubstepRaises ==
    /\ pc = "substep"
    /\ failed' = TRUE
    /\ trace' = Append(trace, Event("substep", s))
    /\ pc' = "raised"
    /\ UNCHANGED <<convVars, simVars, s, rk, ytmp, fxtmp, fytmp, k, entry, usedSum>>

\* line 251 with the increment stored under the next index
StoreIncrement_WrongIndex ==
    /\ pc = "store_increment"
    /\ rk' = store_increment(rk, s + 1, k)
    /\ trace' = Append(trace, Event("store_increment", s))
    /\ s' = s + 1
    /\ pc' = LoopTarget(s + 1, nstages(rk))
    /\ UNCHANGED <<convVars, simVars, ytmp, fxtmp, fytmp, k, entry, usedSum, failed>>

\* line 251, then the for statement of line 245
StoreIncrement ==
    /\ pc = "store_increment"
    /\ rk' = store_increment(rk, s, k)
    /\ trace' = Append(trace, Event("store_increment", s))
    /\ s' = s + 1
    /\ pc' = LoopTarget(s + 1, nstages(rk))
    /\ UNCHANGED <<convVars, simVars, ytmp, fxtmp, fytmp, k, entry, usedSum, failed>>

\* line 253: the integrator writes the finalized step into the live objects
ComputeFinalUpdate ==
    /\ pc = "compute_final_update"
    /\ \E new \in [Cells -> UpdateCellVals] : cc' = [val |-> new, ghost |-> FALSE]
    /\ fcx' = [val |-> fcx.val + 1, ghost |-> FALSE]
    /\ fcy' = [val |-> fcy.val + 1, ghost |-> FALSE]
    /\ trace' = Append(trace, Event("compute_final_update", -1))
    /\ pc' = "update_particles"
    /\ UNCHANGED <<convVars, rp, grid, t, n, dt, particles>>
    /\ UNCHANGED <<s, rk, ytmp, fxtmp, fytmp, k, entry, usedSum, failed>>

\* lines 257-258
UpdateParticles ==
    /\ pc = "update_particles"
    /\ particles' = IF particles.attached
                    THEN [particles EXCEPT !.moved = Append(@, dt)]
                    ELSE particles
    /\ trace' = Append(trace, Event("update_particles", -1))
    /\ pc' = "fill_cc"
    /\ UNCHANGED <<convVars, rp, grid, cc, fcx, fcy, t, n, dt>>
    /\ UNCHANGED <<s, rk, ytmp, fxtmp, fytmp, k, entry, usedSum, failed>>

\* line 265
FillCC ==
    /\ pc = "fill_cc"
    /\ cc' = fill_BC_all(cc)
    /\ trace' = Append(trace, Event("fill_cc", -1))
    /\ pc' = "fill_fcx"
    /\ UNCHANGED <<convVars, rp, grid, fcx, fcy, t, n, dt, particles>>
    /\ UNCHANGED <<s, rk, ytmp, fxtmp, fytmp, k, entry, usedSum, failed>>

\* line 266
FillFcx ==
    /\ pc = "fill_fcx"
    /\ fcx' = fill_BC_all(fcx)
    /\ trace' = Append(trace, Event("fill_fcx", -1))
    /\ pc' = "fill_fcy"
    /\ UNCHANGED <<convVars, rp, grid, cc, fcy, t, n, dt, particles>>
    /\ UNCHANGED <<s, rk, ytmp, fxtmp, fytmp, k, entry, usedSum, failed>>

\* line 267
FillFcy ==
    /\ pc = "fill_fcy"
    /\ fcy' = fill_BC_all(fcy)
    /\ trace' = Append(trace, Event("fill_fcy", -1))
    /\ pc' = "method_compute_timestep"
    /\ UNCHANGED <<convVars, rp, grid, cc, fcx, t, n, dt, particles>>
    /\ UNCHANGED <<s, rk, ytmp, fxtmp, fytmp, k, entry, usedSum, failed>>

\* line 269
ComputeTimestep ==
    /\ pc = "method_compute_timestep"
    /\ dt' = method_compute_timestep(rp, grid, cc.val)
    /\ trace' = Append(trace, Event("method_compute_timestep", -1))
    /\ pc' = "advance_t"
    /\ UNCHANGED <<convVars, rp, grid, cc, fcx, fcy, t, n, particles>>
    /\ UNCHANGED <<s, rk, ytmp, fxtmp, fytmp, k, entry, usedSum, failed>>

\* line 270: self.cc_data.t += self.dt
AdvanceClock ==
    /\ pc = "advance_t"
    /\ t' = RAdd(t, dt)
    /\ trace' = Append(trace, Event("advance_t", -1))
    /\ pc' = "increment_n"
    /\ UNCHANGED <<convVars, rp, grid, cc, fcx, fcy, n, dt, particles>>
    /\ UNCHANGED <<s, rk, ytmp, fxtmp, fytmp, k, entry, usedSum, failed>>

\* line 271: self.n += 1; the step was integrated with the dt the integrator
\* and the substeps were given
IncrementStep ==
    /\ pc = "increment_n"
    /\ n' = n + 1
    /\ usedSum' = RAdd(usedSum, rk.dt)
    /\ trace' = Append(trace, Event("increment_n", -1))
    /\ pc' = "idle"
    /\ UNCHANGED <<convVars, rp, grid, cc, fcx, fcy, t, dt, particles>>
    /\ UNCHANGED <<s, rk, ytmp, fxtmp, fytmp, k, entry, failed>>

EvolveNext ==
    \/ Start
    \/ GetStageStart
    \/ FillStageCC
    \/ FillStageFx
    \/ FillStageFy
    \/ SubstepReturns
    \/ SubstepRaises
    \/ StoreIncrement
    \/ ComputeFinalUpdate
    \/ UpdateParticles
    \/ FillCC
    \/ FillFcx
    \/ FillFcy
    \/ ComputeTimestep
    \/ AdvanceClock
    \/ IncrementStep

SpecEvolve ==
    EvolveInit /\ [][EvolveNext]_vars

(***************************************************************************)
(* Properties of the stage driver                                          *)
(***************************************************************************)
StageOps ==
    <<"get_stage_start", "fill_ytmp", "fill_fxtmp", "fill_fytmp", "substep",
      "store_increment">>

TailOps ==
    <<"compute_final_update", "update_particles", "fill_cc", "fill_fcx",
      "fill_fcy", "method_compute_timestep", "advance_t", "increment_n">>

\* the statements of stages st..nst-1, each with the increments stored before it
RECURSIVE StageEvents(_, _)
StageEvents(st, nst) ==
    IF st >= nst
    THEN <<>>
    ELSE [i \in 1..Len(StageOps) |->
             [op |-> StageOps[i], s |-> st, stored |-> 0..(st - 1)]]
         \o StageEvents(st + 1, nst)

\* START, STAGE(0..nst-1), FINALIZE, AUXILIARY_UPDATE, RESYNC, NEXT_DT
ExpectedTrace(nst) ==
    <<[op |-> "start", s |-> -1, stored |-> {}]>>
    \o StageEvents(0, nst)
    \o [i \in 1..Len(TailOps) |->
           [op |-> TailOps[i], s |-> -1, stored |-> 0..(nst - 1)]]

Completed ==
    pc = "idle" /\ n > 0

\* C1: after any sequence of evolve calls the clock is the initial time plus
\* the sum of the dt values the steps were integrated with.
C1_ClockAdvancesByUsedDt ==
    Completed => t = RAdd(Whole(0), usedSum)

\* C2: a completed evolve call ran START, STAGE(0), ..., STAGE(nst-1),
\* FINALIZE, AUXILIARY_UPDATE, RESYNC, NEXT_DT once each in this order; the
\* working state of stage st was obtained with increments 0..st-1 stored,
\* and compute_final_update was requested once, with all nst stored; the
\* particle system, if attached, was advanced once per completed call.
C2_PhaseOrder ==
    Completed =>
        /\ trace = ExpectedTrace(rp.nstages)
        /\ rk.t = entry.t
        /\ rk.dt = entry.dt
        /\ DOMAIN rk.stored = 0..(rp.nstages - 1)
        /\ \A i \in DOMAIN rk.stored : rk.stored[i].stage = i
        /\ Len(particles.moved) = IF particles.attached THEN n ELSE 0

C2_Witness ==
    /\ Completed
    /\ n = 2
    /\ rp.nstages = 2
    /\ particles.attached
    /\ trace = ExpectedTrace(2)

\* C3: every substep evaluation reads stage states whose ghost cells were
\* filled after the states were obtained, and the timestep is recomputed
\* from finalized states whose ghost cells were filled after the update.
C3_GhostFillBeforeRead ==
    /\ pc = "substep" => (ytmp.ghost /\ fxtmp.ghost /\ fytmp.ghost)
    /\ pc = "store_increment" => k.ghost
    /\ \A i \in DOMAIN rk.stored : rk.stored[i].ghost
    /\ pc = "method_compute_timestep" => (cc.ghost /\ fcx.ghost /\ fcy.ghost)

C3_Witness ==
    /\ pc = "substep"
    /\ s = 1
    /\ n = 1
    /\ ytmp.ghost /\ fxtmp.ghost /\ fytmp.ghost
    /\ ytmp.from = {0}

\* C9: once a substep evaluation has raised, evolve is left at once: no later
\* stage, final update, particle update, resync or timestep computation is
\* performed, and the live states, t, n and dt are as on entry.
C9_NoPartialCommit ==
    failed =>
        /\ pc = "raised"
        /\ trace[Len(trace)] = [op |-> "substep", s |-> s, stored |-> 0..(s - 1)]
        /\ \A i \in 1..Len(trace) :
              /\ trace[i].s <= s
              /\ \A j \in 1..Len(TailOps) : trace[i].op # TailOps[j]
        /\ cc = entry.cc
        /\ fcx = entry.fcx
        /\ fcy = entry.fcy
        /\ t = entry.t
        /\ n = entry.n
        /\ dt = entry.dt
        /\ particles = entry.particles

C9_Witness ==
    /\ failed
    /\ pc = "raised"
    /\ s = 1
    /\ n = 1
    /\ cc = entry.cc

====
